---- MODULE Spec2Model ----
(***************************************************************************)
(* BridgeBook: the book-request lifecycle of the dashboard components.     *)
(*                                                                         *)
(* The store (books, book_requests, contact_exchanges, notifications) is   *)
(* shared by every browser session.  A session is one mounted Dashboard:   *)
(* it shows one view at a time, and the view's React state is lost when    *)
(* the view is left.  A handler is asynchronous: every awaited store call  *)
(* is one atomic step of the store, and the steps of different handler     *)
(* invocations (of one session or of several) interleave freely.          *)
(*                                                                         *)
(* Two revisions of the components are in the repository: the base one     *)
(* (direct notification inserts, no in-flight markers) and the extended    *)
(* one (create_book_notification RPC, requestingBooks/processingRequests). *)
(* `variant` says which one is deployed.                                   *)
(***************************************************************************)
EXTENDS Integers, Sequences, FiniteSets, TLC

VARIABLES
    variant,            \* "base" or "extended"
    user,               \* useAuth().user of each session (NoUser: signed out)
    books,              \* table books
    book_requests,      \* table book_requests; a row's id is its index
    contact_exchanges,  \* table contact_exchanges; a row's id is its index
    notifications,      \* table notifications; a row's id is its index
    view,               \* the mounted view of each session and its React state
    ops,                \* handler invocations, in the order they were started
    fetches,            \* list fetches in flight (fetchBooks, fetchRequests)
    env                 \* what the behaviour may still do: store calls that
                        \* fail (faults) and tab changes (switches)

vars == <<variant, user, books, book_requests, contact_exchanges,
          notifications, view, ops, fetches, env>>

store == <<books, book_requests, contact_exchanges, notifications>>

----------------------------------------------------------------------------
(* Bounds of the model *)

\* handler invocations in one behaviour
MaxOps == 3
\* store calls that fail in one behaviour
MaxFailures == 1
\* tab changes in one behaviour
MaxSwitches == 2

----------------------------------------------------------------------------
(* Values *)

Users == {"A", "B"}
NoUser == "nobody"
Sessions == {"s1", "s2"}
Variants == {"base", "extended"}
Decisions == {"approved", "rejected"}
Phones == {"555-0100", "555-0200"}
Addresses == {"12 Oak St"}
NoValue == "null"

\* The catalog the behaviours start from: each user has donated one book.
Catalog ==
    { [id |-> "b1", donorid |-> "A", status |-> "available", is_free_to_read |-> FALSE],
      [id |-> "b2", donorid |-> "B", status |-> "available", is_free_to_read |-> FALSE] }

----------------------------------------------------------------------------
(* The tables: rows with the columns the components write, and the column  *)
(* defaults of the schema.                                                 *)

\* book_requests.insert({book_id, requester_id, donor_id, message}): the
\* message is a function of the book and is left out; status and updated_at
\* take the column defaults.
book_requests_row(values) ==
    [book_id |-> values.book_id, requester_id |-> values.requester_id,
     donor_id |-> values.donor_id, status |-> "pending", updated_at |-> "created"]

\* notifications.insert({userid, type, title, message}); read defaults to false.
\* The message names the book title, kept as `about`.
notifications_row(values) ==
    [userid |-> values.userid, type |-> values.type, title |-> values.title,
     about |-> values.about, read |-> FALSE]

\* rpc('create_book_notification', {user_id, notification_type,
\* notification_title, notification_message}): inserts the notification.
create_book_notification(user_id, type, title, about) ==
    notifications_row([userid |-> user_id, type |-> type, title |-> title,
                       about |-> about])

\* The rows of book_requests as the client receives them (select *): the
\* columns and the id.
RequestRow(i) ==
    [id |-> i, book_id |-> book_requests[i].book_id,
     requester_id |-> book_requests[i].requester_id,
     donor_id |-> book_requests[i].donor_id,
     status |-> book_requests[i].status]

RequestIds == 1..Len(book_requests)

----------------------------------------------------------------------------
(* Views *)

\* useState initial values of a freshly mounted view.
MountedView(tab) ==
    [currentView |-> tab,
     loading |-> tab \in {"books", "requests", "notifications"},
     books |-> {},
     notifications |-> {},
     requestingBooks |-> {},
     sentRequests |-> {},
     receivedRequests |-> {},
     contactExchanges |-> << >>,
     processingRequests |-> {},
     sharing |-> {}]


\* A handler invocation.  pc is the store call it is about to make ("done":
\* it has returned); live says whether the component that started it is still
\* mounted (setState of an unmounted component does nothing).  outcome is the
\* toast it showed; wrote lists the rows it wrote, failed the store calls of
\* it that returned an error, matched the rows its existence check matched,
\* before the invocations that had returned when it was started.
Invocation(kind, s, pc, arg) ==
    [kind |-> kind, s |-> s, live |-> TRUE, pc |-> pc, arg |-> arg,
     matched |-> -1, failed |-> {}, outcome |-> "none", wrote |-> << >>,
     before |-> { k \in 1..Len(ops) : ops[k].pc = "done" }]

Fetch(kind, s, pc) ==
    [kind |-> kind, s |-> s, pc |-> pc, sent |-> {}, received |-> {}]

RemoveAt(seq, i) == SubSeq(seq, 1, i - 1) \o SubSeq(seq, i + 1, Len(seq))

Returned(o, outcome) == [o EXCEPT !.pc = "done", !.outcome = outcome]

Wrote(o, table, id) == [o EXCEPT !.wrote = Append(@, <<table, id>>)]

Failed(o, call) == [o EXCEPT !.failed = @ \cup {call}]

\* The results a store call may have: success, or an error while the
\* behaviour's faults last.
Results == IF env.faults > 0 THEN BOOLEAN ELSE {TRUE}

AfterCall(ok) == IF ok THEN env ELSE [env EXCEPT !.faults = @ - 1]

\* The user of a session starts a handler when the handlers the mounted view
\* started before have returned (one click at a time in a tab); the handlers
\* of other sessions, and of a view the session has left, may be in flight.
Idle(s) == \A k \in 1..Len(ops) : (ops[k].s = s /\ ops[k].live) => ops[k].pc = "done"

\* A handler can be started: the behaviour's invocations last.
CanStart(s) == Len(ops) < MaxOps /\ Idle(s)

----------------------------------------------------------------------------
(* BooksList (Browse Books) *)

\* fetchBooks: .eq('status', 'available'), and in the extended revision
\* .eq('is_free_to_read', false)
BooksQuery ==
    { b \in books : /\ b.status = "available"
                    /\ (variant = "extended" => ~b.is_free_to_read) }

\* fetchBooks, its one store call: setBooks(data) or the error toast, then
\* setLoading(false).
fetchBooks(i) ==
    /\ i \in 1..Len(fetches)
    /\ fetches[i].kind = "fetchBooks"
    /\ \E ok \in Results :
          /\ env' = AfterCall(ok)
          /\ view' = [view EXCEPT ![fetches[i].s].books = IF ok THEN BooksQuery ELSE @,
                                  ![fetches[i].s].loading = FALSE]
    /\ fetches' = RemoveAt(fetches, i)
    /\ UNCHANGED <<variant, user, store, ops>>

\* .single(): the row when exactly one row matches, else no data (and an
\* error the handler does not read); no data either when the query fails.
\* The data is given as a set: the row, or nothing.
single(rows, ok) ==
    IF ok /\ Cardinality(rows) = 1 THEN rows ELSE {}

\* The existence check without .eq('status', 'pending').
PendingRequests_AnyStatus(book_id, requester_id) ==
    { r \in RequestIds : /\ book_requests[r].book_id = book_id
                         /\ book_requests[r].requester_id = requester_id }

\* The rows the existence check of handleRequestBook selects.
PendingRequests(book_id, requester_id) ==
    { r \in RequestIds : /\ book_requests[r].book_id = book_id
                         /\ book_requests[r].requester_id = requester_id
                         /\ book_requests[r].status = "pending" }

\* The Request Book button rendered on the user's own books too.
RequestBookButton_OwnBooks(s, book) ==
    /\ view[s].currentView = "books"
    /\ ~view[s].loading
    /\ book \in view[s].books
    /\ (variant = "extended" => book.id \notin view[s].requestingBooks)

\* The Request Book button of a listed book: rendered unless the book is the
\* user's own, disabled (extended) while the book is in requestingBooks.
RequestBookButton(s, book) ==
    /\ view[s].currentView = "books"
    /\ ~view[s].loading
    /\ book \in view[s].books
    /\ user[s] # book.donorid
    /\ (variant = "extended" => book.id \notin view[s].requestingBooks)

\* handleRequestBook up to its first await: returns when no user is signed in
\* or (extended) the book is in requestingBooks, else sets the marker.
handleRequestBook(s, book) ==
    /\ RequestBookButton(s, book)
    /\ user[s] # NoUser
    /\ variant = "extended" => book.id \notin view[s].requestingBooks
    /\ CanStart(s)
    /\ ops' = Append(ops, Invocation("handleRequestBook", s, "check", book))
    /\ view' = IF variant = "extended"
               THEN [view EXCEPT ![s].requestingBooks = @ \cup {book.id}]
               ELSE view
    /\ UNCHANGED <<variant, user, store, fetches, env>>

\* finally { setRequestingBooks(delete book.id) } of the extended revision
ReleaseRequestingBooks(o) ==
    IF variant = "extended" /\ o.live
    THEN [view EXCEPT ![o.s].requestingBooks = @ \ {o.arg.id}]
    ELSE view

\* The existence check: select id ... .eq('status', 'pending').single().
\* With a row: the "Already Requested" toast and return.
handleRequestBook_check(i) ==
    /\ i \in 1..Len(ops)
    /\ ops[i].kind = "handleRequestBook" /\ ops[i].pc = "check"
    /\ \E ok \in Results :
          /\ env' = AfterCall(ok)
          /\ LET o == ops[i]
                 rows == PendingRequests(o.arg.id, user[o.s])
                 existingRequest == single(rows, ok)
                 seen == [(IF ok THEN o ELSE Failed(o, "check"))
                             EXCEPT !.matched = Cardinality(rows)]
             IN  IF existingRequest # {}
                 THEN /\ ops' = [ops EXCEPT ![i] = Returned(seen, "Already Requested")]
                      /\ view' = ReleaseRequestingBooks(o)
                 ELSE /\ ops' = [ops EXCEPT ![i] = [seen EXCEPT !.pc = "insert"]]
                      /\ view' = view
    /\ UNCHANGED <<variant, user, store, fetches>>

\* RequestValues with the requester written as the donor.
RequestValues_OwnDonor(o) ==
    [book_id |-> o.arg.id, requester_id |-> user[o.s], donor_id |-> user[o.s]]

\* The values handleRequestBook inserts into book_requests.
RequestValues(o) ==
    [book_id |-> o.arg.id, requester_id |-> user[o.s], donor_id |-> o.arg.donorid]

\* handleRequestBook_insert without "if (requestError) throw requestError":
\* the handler goes on to the notification when the insert failed.
handleRequestBook_insert_Unchecked(i) ==
    /\ i \in 1..Len(ops)
    /\ ops[i].kind = "handleRequestBook" /\ ops[i].pc = "insert"
    /\ \E ok \in Results :
          /\ env' = AfterCall(ok)
          /\ LET o == ops[i] IN
             /\ book_requests' = IF ok THEN Append(book_requests,
                                                   book_requests_row(RequestValues(o)))
                                  ELSE book_requests
             /\ ops' = [ops EXCEPT ![i] =
                          [(IF ok THEN Wrote(o, "book_requests", Len(book_requests) + 1)
                                  ELSE Failed(o, "insert"))
                              EXCEPT !.pc = "notify_donor"]]
             /\ view' = view
    /\ UNCHANGED <<variant, user, books, contact_exchanges, notifications, fetches>>

\* book_requests.insert(...); an error is thrown to the catch block.
handleRequestBook_insert(i) ==
    /\ i \in 1..Len(ops)
    /\ ops[i].kind = "handleRequestBook" /\ ops[i].pc = "insert"
    /\ \E ok \in Results :
          /\ env' = AfterCall(ok)
          /\ LET o == ops[i] IN
             IF ok
             THEN /\ book_requests' = Append(book_requests, book_requests_row(RequestValues(o)))
                  /\ ops' = [ops EXCEPT ![i] =
                                [Wrote(o, "book_requests", Len(book_requests) + 1)
                                    EXCEPT !.pc = "notify_donor"]]
                  /\ view' = view
             ELSE /\ book_requests' = book_requests
                  /\ ops' = [ops EXCEPT ![i] = Returned(Failed(o, "insert"), "Error")]
                  /\ view' = ReleaseRequestingBooks(o)
    /\ UNCHANGED <<variant, user, books, contact_exchanges, notifications, fetches>>

\* The donor's notification of a new request.
BookRequestNotification(o) ==
    [userid |-> o.arg.donorid, type |-> "book_request",
     title |-> "New Book Request", about |-> o.arg.id]

\* The requester's acknowledgement (extended revision).
RequestSentNotification(o) ==
    [userid |-> user[o.s], type |-> "request_sent",
     title |-> "Request Sent", about |-> o.arg.id]

\* Base revision: notifications.insert(...) for the donor; an error is thrown
\* to the catch block; else the "Request Sent" toast.
\* Extended revision: createNotification(book.donorid, ...) swallows a failure.
handleRequestBook_notify_donor(i) ==
    /\ i \in 1..Len(ops)
    /\ ops[i].kind = "handleRequestBook" /\ ops[i].pc = "notify_donor"
    /\ \E ok \in Results :
          /\ env' = AfterCall(ok)
          /\ LET o == ops[i]
                 n == BookRequestNotification(o)
                 row == IF variant = "base"
                        THEN notifications_row(n)
                        ELSE create_book_notification(n.userid, n.type, n.title, n.about)
                 written == Wrote(o, "notifications", Len(notifications) + 1)
             IN  /\ notifications' = IF ok THEN Append(notifications, row) ELSE notifications
                 /\ ops' = [ops EXCEPT ![i] =
                       IF variant = "base"
                       THEN IF ok THEN Returned(written, "Request Sent")
                                  ELSE Returned(Failed(o, "notify_donor"), "Error")
                       ELSE [(IF ok THEN written ELSE Failed(o, "notify_donor"))
                                EXCEPT !.pc = "notify_requester"]]
    /\ UNCHANGED <<variant, user, books, book_requests, contact_exchanges, view, fetches>>

\* Extended revision: createNotification(user.id, 'request_sent', ...), the
\* "Request Sent" toast, and the finally block.
handleRequestBook_notify_requester(i) ==
    /\ i \in 1..Len(ops)
    /\ ops[i].kind = "handleRequestBook" /\ ops[i].pc = "notify_requester"
    /\ \E ok \in Results :
          /\ env' = AfterCall(ok)
          /\ LET o == ops[i]
                 n == RequestSentNotification(o)
                 row == create_book_notification(n.userid, n.type, n.title, n.about)
             IN  /\ notifications' = IF ok THEN Append(notifications, row) ELSE notifications
                 /\ ops' = [ops EXCEPT ![i] =
                       Returned(IF ok THEN Wrote(o, "notifications", Len(notifications) + 1)
                                      ELSE Failed(o, "notify_requester"),
                                "Request Sent")]
                 /\ view' = ReleaseRequestingBooks(o)
    /\ UNCHANGED <<variant, user, books, book_requests, contact_exchanges, fetches>>


----------------------------------------------------------------------------
(* MyRequests *)

SentQuery(u) == { RequestRow(r) : r \in { q \in RequestIds : book_requests[q].requester_id = u } }

\* ReceivedQuery with the filter of SentQuery.
ReceivedQuery_ByRequester(u) ==
    { RequestRow(r) : r \in { q \in RequestIds : book_requests[q].requester_id = u } }

ReceivedQuery(u) ==
    { RequestRow(r) : r \in { q \in RequestIds : book_requests[q].donor_id = u } }

\* approvedRequestIds of fetchRequests
approvedRequestIds(allRequests) ==
    { req.id : req \in { q \in allRequests : q.status = "approved" } }

\* The rows of contact_exchanges with request_id in ids, as indices.
ExchangeQuery(ids) ==
    { x \in 1..Len(contact_exchanges) : contact_exchanges[x].request_id \in ids }

\* exchangeMap: exchanges.forEach(e => exchangeMap[e.request_id] = e); of
\* several rows of one request the last one read stays.
exchangeMap(rows) ==
    [ r \in { contact_exchanges[x].request_id : x \in rows } |->
        LET last == CHOOSE x \in rows :
                       /\ contact_exchanges[x].request_id = r
                       /\ \A y \in rows : contact_exchanges[y].request_id = r => y <= x
        IN  contact_exchanges[last] ]

\* fetchRequests() is called: it returns at once when no user is signed in.
\* The fetches of an unmounted view only read, and are dropped.
StartFetchRequests(s, mounted) ==
    IF user[s] # NoUser /\ mounted
    THEN Append(fetches, Fetch("fetchRequests", s, "sent"))
    ELSE fetches

\* fetchRequests, first query: the requests the user sent.
fetchRequests_sent(i) ==
    /\ i \in 1..Len(fetches)
    /\ fetches[i].kind = "fetchRequests" /\ fetches[i].pc = "sent"
    /\ \E ok \in Results :
          /\ env' = AfterCall(ok)
          /\ IF ok
             THEN /\ fetches' = [fetches EXCEPT ![i].sent = SentQuery(user[fetches[i].s]),
                                                ![i].pc = "received"]
                  /\ view' = view
             ELSE /\ fetches' = RemoveAt(fetches, i)
                  /\ view' = [view EXCEPT ![fetches[i].s].loading = FALSE]
    /\ UNCHANGED <<variant, user, store, ops>>

\* A ContactExchange child stays mounted while its request is listed as
\* approved; its loading flag goes with it.
StillShared(sharing, allRequests) == sharing \cap approvedRequestIds(allRequests)

\* fetchRequests, second query: the requests the user received; then
\* setSentRequests, setReceivedRequests, and either the exchanges query or the
\* finally block.
fetchRequests_received(i) ==
    /\ i \in 1..Len(fetches)
    /\ fetches[i].kind = "fetchRequests" /\ fetches[i].pc = "received"
    /\ \E ok \in Results :
          /\ env' = AfterCall(ok)
          /\ LET f == fetches[i]
                 received == ReceivedQuery(user[f.s])
                 allRequests == f.sent \cup received
             IN  IF ok
                 THEN /\ view' = [view EXCEPT
                                     ![f.s].sentRequests = f.sent,
                                     ![f.s].receivedRequests = received,
                                     ![f.s].sharing = StillShared(@, allRequests),
                                     ![f.s].loading =
                                         IF approvedRequestIds(allRequests) # {} THEN @ ELSE FALSE]
                      /\ fetches' = IF approvedRequestIds(allRequests) # {}
                                    THEN [fetches EXCEPT ![i].received = received,
                                                         ![i].pc = "exchanges"]
                                    ELSE RemoveAt(fetches, i)
                 ELSE /\ view' = [view EXCEPT ![f.s].loading = FALSE]
                      /\ fetches' = RemoveAt(fetches, i)
    /\ UNCHANGED <<variant, user, store, ops>>

\* fetchRequests, third query: the contact exchanges of the approved
\* requests; setContactExchanges(exchangeMap); the finally block.
fetchRequests_exchanges(i) ==
    /\ i \in 1..Len(fetches)
    /\ fetches[i].kind = "fetchRequests" /\ fetches[i].pc = "exchanges"
    /\ \E ok \in Results :
          /\ env' = AfterCall(ok)
          /\ LET f == fetches[i]
                 ids == approvedRequestIds(f.sent \cup f.received)
             IN  view' = [view EXCEPT
                             ![f.s].contactExchanges =
                                 IF ok THEN exchangeMap(ExchangeQuery(ids)) ELSE @,
                             ![f.s].loading = FALSE]
    /\ fetches' = RemoveAt(fetches, i)
    /\ UNCHANGED <<variant, user, store, ops>>

\* The Approve and Reject buttons of a received request: rendered while its
\* listed status is pending, disabled (extended) while it is in
\* processingRequests.
RespondButtons(s, request) ==
    /\ view[s].currentView = "requests"
    /\ ~view[s].loading
    /\ request \in view[s].receivedRequests
    /\ request.status = "pending"
    /\ (variant = "extended" => request.id \notin view[s].processingRequests)

\* handleRequestResponse(request.id, status, request.requester_id,
\* request.books.title) up to its first await: the extended revision returns
\* when the request is in processingRequests, else sets the marker.
handleRequestResponse(s, request, status) ==
    /\ RespondButtons(s, request)
    /\ variant = "extended" => request.id \notin view[s].processingRequests
    /\ CanStart(s)
    /\ ops' = Append(ops, Invocation("handleRequestResponse", s, "update",
                                     [requestId |-> request.id, status |-> status,
                                      requesterId |-> request.requester_id,
                                      bookTitle |-> request.book_id]))
    /\ view' = IF variant = "extended"
               THEN [view EXCEPT ![s].processingRequests = @ \cup {request.id}]
               ELSE view
    /\ UNCHANGED <<variant, user, store, fetches, env>>

\* A finally block that leaves processingRequests as it is.
ReleaseProcessingRequests_Never(o) ==
    view

\* finally { setProcessingRequests(delete requestId) } of the extended revision
ReleaseProcessingRequests(o) ==
    IF variant = "extended" /\ o.live
    THEN [view EXCEPT ![o.s].processingRequests = @ \ {o.arg.requestId}]
    ELSE view

\* The columns handleRequestResponse updates: status, and in the extended
\* revision updated_at.
RespondUpdate(row, status) ==
    IF variant = "extended"
    THEN [row EXCEPT !.status = status, !.updated_at = "responded"]
    ELSE [row EXCEPT !.status = status]

\* book_requests.update(...).eq('id', requestId); an error is thrown to the
\* catch block.
handleRequestResponse_update(i) ==
    /\ i \in 1..Len(ops)
    /\ ops[i].kind = "handleRequestResponse" /\ ops[i].pc = "update"
    /\ \E ok \in Results :
          /\ env' = AfterCall(ok)
          /\ LET o == ops[i] IN
             IF ok
             THEN /\ book_requests' =
                         [book_requests EXCEPT ![o.arg.requestId] =
                                                   RespondUpdate(@, o.arg.status)]
                  /\ ops' = [ops EXCEPT ![i] =
                                [Wrote(o, "book_requests", o.arg.requestId)
                                    EXCEPT !.pc = "notify_requester"]]
                  /\ view' = view
             ELSE /\ book_requests' = book_requests
                  /\ ops' = [ops EXCEPT ![i] = Returned(Failed(o, "update"), "Error")]
                  /\ view' = ReleaseProcessingRequests(o)
    /\ UNCHANGED <<variant, user, books, contact_exchanges, notifications, fetches>>

\* The requester's notification of the decision.
RequestResponseNotification(o) ==
    [userid |-> o.arg.requesterId, type |-> "request_response",
     title |-> IF o.arg.status = "approved" THEN "Book Request Approved"
                                            ELSE "Book Request Rejected",
     about |-> o.arg.bookTitle]

\* The donor's acknowledgement (extended revision).
RequestActionNotification(o) ==
    [userid |-> user[o.s], type |-> "request_action",
     title |-> "Request Updated", about |-> o.arg.bookTitle]

\* Base revision: notifications.insert(...) for the requester; an error is
\* thrown to the catch block; else the "Request Updated" toast and
\* fetchRequests(), not awaited.
\* Extended revision: createNotification(requesterId, ...) swallows a failure.
handleRequestResponse_notify_requester(i) ==
    /\ i \in 1..Len(ops)
    /\ ops[i].kind = "handleRequestResponse" /\ ops[i].pc = "notify_requester"
    /\ \E ok \in Results :
          /\ env' = AfterCall(ok)
          /\ LET o == ops[i]
                 n == RequestResponseNotification(o)
                 row == IF variant = "base"
                        THEN notifications_row(n)
                        ELSE create_book_notification(n.userid, n.type, n.title, n.about)
                 written == Wrote(o, "notifications", Len(notifications) + 1)
             IN  /\ notifications' = IF ok THEN Append(notifications, row) ELSE notifications
                 /\ ops' = [ops EXCEPT ![i] =
                       IF variant = "base"
                       THEN IF ok THEN Returned(written, "Request Updated")
                                  ELSE Returned(Failed(o, "notify_requester"), "Error")
                       ELSE [(IF ok THEN written ELSE Failed(o, "notify_requester"))
                                EXCEPT !.pc = "notify_donor"]]
                 /\ fetches' = IF variant = "base" /\ ok
                               THEN StartFetchRequests(o.s, o.live)
                               ELSE fetches
    /\ UNCHANGED <<variant, user, books, book_requests, contact_exchanges, view>>

\* Extended revision: if (user) createNotification(user.id, 'request_action',
\* ...); the "Request Updated" toast; fetchRequests(), not awaited; the
\* finally block.
handleRequestResponse_notify_donor(i) ==
    /\ i \in 1..Len(ops)
    /\ ops[i].kind = "handleRequestResponse" /\ ops[i].pc = "notify_donor"
    /\ \E ok \in Results :
          /\ env' = AfterCall(ok)
          /\ LET o == ops[i]
                 n == RequestActionNotification(o)
                 row == create_book_notification(n.userid, n.type, n.title, n.about)
                 sent == user[o.s] # NoUser
             IN  /\ notifications' = IF sent /\ ok THEN Append(notifications, row)
                                                   ELSE notifications
                 /\ ops' = [ops EXCEPT ![i] =
                       Returned(IF ~sent THEN o
                                ELSE IF ok THEN Wrote(o, "notifications", Len(notifications) + 1)
                                ELSE Failed(o, "notify_donor"),
                                "Request Updated")]
                 /\ fetches' = StartFetchRequests(o.s, o.live)
                 /\ view' = ReleaseProcessingRequests(o)
    /\ UNCHANGED <<variant, user, books, book_requests, contact_exchanges>>

----------------------------------------------------------------------------
(* ContactExchange, the child MyRequests renders under an approved request *)

\* existingExchange={contactExchanges[request.id]}, as a set: the row, or
\* nothing when the map has no entry.
existingExchange(s, requestId) ==
    IF requestId \in DOMAIN view[s].contactExchanges
    THEN {view[s].contactExchanges[requestId]}
    ELSE {}

\* hasSharedContact true as soon as an exchange was fetched.
hasSharedContact_AnyExchange(exchange, isDonor) ==
    exchange # {}

\* hasSharedContact = existingExchange?.[isDonor ? 'donor_phone' : 'requester_phone']
hasSharedContact(exchange, isDonor) ==
    \E e \in exchange :
        (IF isDonor THEN e.donor_phone ELSE e.requester_phone) \notin {NoValue, ""}

\* The ContactExchange form of a listed request: MyRequests renders the child
\* when the listed status is approved (isDonor for a received request), the
\* child renders the form unless hasSharedContact, and disables the submit
\* button while loading.
ContactForm(s, request, isDonor) ==
    /\ view[s].currentView = "requests"
    /\ ~view[s].loading
    /\ request \in (IF isDonor THEN view[s].receivedRequests ELSE view[s].sentRequests)
    /\ request.status = "approved"
    /\ ~hasSharedContact(existingExchange(s, request.id), isDonor)
    /\ request.id \notin view[s].sharing

\* otherPersonContact / otherPersonAddress: the phone and the address of the
\* other role's columns.
\* otherPersonContact reading the columns of the viewer's own role.
otherPersonContact_OwnRole(e, isDonor) ==
    IF isDonor THEN e.donor_phone ELSE e.requester_phone

otherPersonContact(e, isDonor) ==
    IF isDonor THEN e.requester_phone ELSE e.donor_phone

otherPersonAddress(e, isDonor) == IF isDonor THEN e.requester_address ELSE e.donor_address

\* The ContactExchange children MyRequests renders: one under every listed
\* request whose listed status is approved, isDonor = false in the sent list
\* and true in the received list.
ContactExchangeChildren(s) ==
    IF view[s].currentView # "requests" \/ view[s].loading THEN {}
    ELSE { [request |-> q, isDonor |-> FALSE] :
              q \in { x \in view[s].sentRequests : x.status = "approved" } }
         \cup
         { [request |-> q, isDonor |-> TRUE] :
              q \in { x \in view[s].receivedRequests : x.status = "approved" } }

\* ContactInformation with the two branches of the render exchanged.
ContactInformation_Exchanged(s, child) ==
    LET exchange == existingExchange(s, child.request.id) IN
    IF hasSharedContact(exchange, child.isDonor) THEN {}
    ELSE { [phone |-> otherPersonContact(e, child.isDonor),
            address |-> otherPersonAddress(e, child.isDonor)] :
             e \in { x \in exchange :
                       otherPersonContact(x, child.isDonor) \notin {NoValue, ""} } }

\* What a ContactExchange child shows as the other person's contact: nothing
\* while the form is shown (!hasSharedContact), else otherPersonContact and
\* otherPersonAddress when otherPersonContact is set.
ContactInformation(s, child) ==
    LET exchange == existingExchange(s, child.request.id) IN
    IF ~hasSharedContact(exchange, child.isDonor) THEN {}
    ELSE { [phone |-> otherPersonContact(e, child.isDonor),
            address |-> otherPersonAddress(e, child.isDonor)] :
             e \in { x \in exchange :
                       otherPersonContact(x, child.isDonor) \notin {NoValue, ""} } }

\* phone.trim(), address.trim(): the inputs of the model are either blank
\* (empty or white space only) or carry no outer white space.
Blank == {"", "  "}

\* trim that leaves white space in place.
trim_None(x) ==
    x

trim(x) ==
    IF x \in Blank THEN "" ELSE x

\* handleSubmit up to its await: returns when no user is signed in or a
\* trimmed field is empty, else setLoading(true).  The values kept for the
\* store call are the untrimmed ones.
ContactExchange_handleSubmit(s, request, isDonor, phone, address) ==
    /\ ContactForm(s, request, isDonor)
    /\ CanStart(s)
    /\ LET o == Invocation("handleSubmit", s, "write",
                           [requestId |-> request.id, isDonor |-> isDonor,
                            phone |-> phone, address |-> address,
                            existingExchange |->
                                existingExchange(s, request.id) # {}])
       IN  IF user[s] = NoUser \/ trim(phone) = "" \/ trim(address) = ""
           THEN /\ ops' = Append(ops, Returned(o, "none"))
                /\ view' = view
           ELSE /\ ops' = Append(ops, o)
                /\ view' = [view EXCEPT ![s].sharing = @ \cup {request.id}]
    /\ UNCHANGED <<variant, user, store, fetches, env>>

\* updateData writing the whole row: the caller's two columns and null in the
\* other two.
updateData_WholeRow(row, o) ==
    IF o.arg.isDonor
    THEN [row EXCEPT !.donor_phone = o.arg.phone, !.donor_address = o.arg.address,
                     !.requester_phone = NoValue, !.requester_address = NoValue]
    ELSE [row EXCEPT !.requester_phone = o.arg.phone, !.requester_address = o.arg.address,
                     !.donor_phone = NoValue, !.donor_address = NoValue]

\* updateData applied to a row: the caller's own two columns.
updateData(row, o) ==
    IF o.arg.isDonor
    THEN [row EXCEPT !.donor_phone = o.arg.phone, !.donor_address = o.arg.address]
    ELSE [row EXCEPT !.requester_phone = o.arg.phone, !.requester_address = o.arg.address]

\* contact_exchanges.insert({request_id, ...updateData}): the other columns
\* are null.
contact_exchanges_row(o) ==
    updateData([request_id |-> o.arg.requestId,
                donor_phone |-> NoValue, donor_address |-> NoValue,
                requester_phone |-> NoValue, requester_address |-> NoValue], o)

\* The rows update(updateData).eq('request_id', requestId) changes.
ExchangesOf(requestId) ==
    { x \in 1..Len(contact_exchanges) : contact_exchanges[x].request_id = requestId }

\* The rows of a set of indices, as write records in index order.
WroteAll(o, table, ids) ==
    [o EXCEPT !.wrote =
        @ \o [ k \in 1..Cardinality(ids) |->
                 <<table, CHOOSE x \in ids : Cardinality({y \in ids : y < x}) = k - 1>> ]]

\* The store call of handleSubmit: update(updateData).eq('request_id',
\* requestId) when existingExchange was given, else insert; then the toast and
\* onContactShared() (fetchRequests of the parent), or the error toast; and
\* setLoading(false).
ContactExchange_handleSubmit_write(i) ==
    /\ i \in 1..Len(ops)
    /\ ops[i].kind = "handleSubmit" /\ ops[i].pc = "write"
    /\ \E ok \in Results :
          /\ env' = AfterCall(ok)
          /\ LET o == ops[i]
                 hit == ExchangesOf(o.arg.requestId)
             IN  /\ contact_exchanges' =
                       IF ~ok THEN contact_exchanges
                       ELSE IF o.arg.existingExchange
                       THEN [ x \in 1..Len(contact_exchanges) |->
                                IF x \in hit THEN updateData(contact_exchanges[x], o)
                                             ELSE contact_exchanges[x] ]
                       ELSE Append(contact_exchanges, contact_exchanges_row(o))
                 /\ ops' = [ops EXCEPT ![i] =
                       IF ~ok THEN Returned(Failed(o, "write"), "Error")
                       ELSE Returned(IF o.arg.existingExchange
                                     THEN WroteAll(o, "contact_exchanges", hit)
                                     ELSE Wrote(o, "contact_exchanges", Len(contact_exchanges) + 1),
                                     "Contact Shared")]
                 /\ fetches' = IF ok THEN StartFetchRequests(o.s, o.live) ELSE fetches
                 /\ view' = IF o.live
                            THEN [view EXCEPT ![o.s].sharing = @ \ {o.arg.requestId}]
                            ELSE view
    /\ UNCHANGED <<variant, user, books, book_requests, notifications>>

----------------------------------------------------------------------------
(* Notifications *)

\* A row of notifications as the client receives it (select *).
NotificationRow(i) ==
    [id |-> i, userid |-> notifications[i].userid, type |-> notifications[i].type,
     title |-> notifications[i].title, about |-> notifications[i].about,
     read |-> notifications[i].read]

\* fetchNotifications: .eq('userid', user.id)
NotificationsQuery(u) ==
    { NotificationRow(n) : n \in { m \in 1..Len(notifications) : notifications[m].userid = u } }

\* fetchNotifications, its one store call: setNotifications(data) or the
\* error toast, then setLoading(false).
fetchNotifications(i) ==
    /\ i \in 1..Len(fetches)
    /\ fetches[i].kind = "fetchNotifications"
    /\ \E ok \in Results :
          /\ env' = AfterCall(ok)
          /\ view' = [view EXCEPT
                         ![fetches[i].s].notifications =
                             IF ok THEN NotificationsQuery(user[fetches[i].s]) ELSE @,
                         ![fetches[i].s].loading = FALSE]
    /\ fetches' = RemoveAt(fetches, i)
    /\ UNCHANGED <<variant, user, store, ops>>

\* The list Notifications renders once loaded.
NotificationsList(s) ==
    IF view[s].currentView = "notifications" /\ ~view[s].loading
    THEN view[s].notifications
    ELSE {}

\* unreadCount
unreadCount(s) == Cardinality({ n \in NotificationsList(s) : ~n.read })

\* A click on the card of a listed notification: markAsRead(notification.id)
\* when it is listed as unread.  The handler keeps the notifications list of
\* the render it was created in.  Clicks on several cards may follow each
\* other before the first update has returned.
markAsRead(s, notification) ==
    /\ notification \in NotificationsList(s)
    /\ ~notification.read
    /\ Len(ops) < MaxOps
    /\ ops' = Append(ops, Invocation("markAsRead", s, "update",
                                     [notificationId |-> notification.id,
                                      notifications |-> view[s].notifications]))
    /\ UNCHANGED <<variant, user, store, view, fetches, env>>

\* notif => notif.id === notificationId ? { ...notif, read: true } : notif
MarkedRead(list, ids) ==
    { [n EXCEPT !.read = (n.read \/ n.id \in ids)] : n \in list }

\* update({ read: true }) with the flag inverted.
ReadUpdate_Toggle(row) ==
    [row EXCEPT !.read = ~@]

\* The payload of both read updates: update({ read: true }).
ReadUpdate(row) ==
    [row EXCEPT !.read = TRUE]

\* markAsRead, its store call: update({ read: true }).eq('id', notificationId);
\* then setNotifications(notifications.map(...)) over the list the handler
\* kept; an error is logged.
markAsRead_update(i) ==
    /\ i \in 1..Len(ops)
    /\ ops[i].kind = "markAsRead" /\ ops[i].pc = "update"
    /\ \E ok \in Results :
          /\ env' = AfterCall(ok)
          /\ LET o == ops[i]
                 n == o.arg.notificationId
             IN  /\ notifications' =
                       IF ok THEN [notifications EXCEPT ![n] = ReadUpdate(@)]
                       ELSE notifications
                 /\ ops' = [ops EXCEPT ![i] =
                       IF ok THEN Returned(Wrote(o, "notifications", n), "none")
                       ELSE Returned(Failed(o, "update"), "none")]
                 /\ view' = IF ok /\ o.live
                            THEN [view EXCEPT ![o.s].notifications =
                                     MarkedRead(o.arg.notifications, {n})]
                            ELSE view
    /\ UNCHANGED <<variant, user, books, book_requests, contact_exchanges, fetches>>

\* The Mark All Read button: rendered while unreadCount > 0.  markAllAsRead
\* up to its await returns when no user is signed in.
markAllAsRead(s) ==
    /\ unreadCount(s) > 0
    /\ user[s] # NoUser
    /\ Len(ops) < MaxOps
    /\ ops' = Append(ops, Invocation("markAllAsRead", s, "update",
                                     [userid |-> user[s],
                                      notifications |-> view[s].notifications]))
    /\ UNCHANGED <<variant, user, store, view, fetches, env>>

\* UnreadOf without the filter on userid.
UnreadOf_AnyUser(u) ==
    { n \in 1..Len(notifications) : ~notifications[n].read }

\* The rows update({ read: true }).eq('userid', user.id).eq('read', false)
\* changes.
UnreadOf(u) ==
    { n \in 1..Len(notifications) : notifications[n].userid = u /\ ~notifications[n].read }

\* markAllAsRead, its store call; then setNotifications(notifications.map(
\* notif => ({ ...notif, read: true }))) over the list the handler kept and
\* the "Success" toast, or the "Error" toast.
markAllAsRead_update(i) ==
    /\ i \in 1..Len(ops)
    /\ ops[i].kind = "markAllAsRead" /\ ops[i].pc = "update"
    /\ \E ok \in Results :
          /\ env' = AfterCall(ok)
          /\ LET o == ops[i]
                 hit == UnreadOf(o.arg.userid)
             IN  /\ notifications' =
                       IF ok
                       THEN [ n \in 1..Len(notifications) |->
                                IF n \in hit THEN ReadUpdate(notifications[n])
                                             ELSE notifications[n] ]
                       ELSE notifications
                 /\ ops' = [ops EXCEPT ![i] =
                       IF ok THEN Returned(WroteAll(o, "notifications", hit), "Success")
                       ELSE Returned(Failed(o, "update"), "Error")]
                 /\ view' = IF ok /\ o.live
                            THEN [view EXCEPT ![o.s].notifications =
                                     MarkedRead(o.arg.notifications,
                                                { n.id : n \in o.arg.notifications })]
                            ELSE view
    /\ UNCHANGED <<variant, user, books, book_requests, contact_exchanges, fetches>>

----------------------------------------------------------------------------
(* DonateBooks *)

\* The ids the store gives to the books donated in a behaviour, in order.
NewBookIds == <<"b3", "b4", "b5", "b6", "b7">>

\* fetchMyBooks: .eq('donorid', user.id)
MyBooksQuery(u) ==
    { b \in books : b.donorid = u }

\* fetchMyBooks() is called: it returns at once when no user is signed in.
StartFetchMyBooks(s, mounted) ==
    IF user[s] # NoUser /\ mounted
    THEN Append(fetches, Fetch("fetchMyBooks", s, "select"))
    ELSE fetches

\* fetchMyBooks, its one store call: setBooks(data); an error is logged.
fetchMyBooks(i) ==
    /\ i \in 1..Len(fetches)
    /\ fetches[i].kind = "fetchMyBooks"
    /\ \E ok \in Results :
          /\ env' = AfterCall(ok)
          /\ view' = [view EXCEPT ![fetches[i].s].books =
                         IF ok THEN MyBooksQuery(user[fetches[i].s]) ELSE @]
    /\ fetches' = RemoveAt(fetches, i)
    /\ UNCHANGED <<variant, user, store, ops>>

\* What the form may hold when it is submitted: the extended revision has
\* the two selects category and condition.
FormData ==
    { [category |-> "academic", condition |-> "good"],
      [category |-> "", condition |-> "good"] }

\* handleSubmit of the donate form up to its first await: it returns when no
\* user is signed in (extended: or category or condition is empty, with the
\* "Missing Information" toast).
DonateBooks_handleSubmit(s, formData) ==
    /\ view[s].currentView = "donate"
    /\ CanStart(s)
    /\ LET o == Invocation("DonateBooks_handleSubmit", s, "insert", formData)
           missing == variant = "extended" /\
                      (formData.category = "" \/ formData.condition = "")
       IN  ops' = Append(ops,
                    IF user[s] = NoUser \/ missing
                    THEN Returned(o, IF variant = "extended"
                                     THEN "Missing Information" ELSE "none")
                    ELSE o)
    /\ UNCHANGED <<variant, user, store, view, fetches, env>>

\* The books an invocation of the donate form has inserted so far.
Donated ==
    Cardinality({ k \in 1..Len(ops) :
                    /\ ops[k].kind = "DonateBooks_handleSubmit"
                    /\ ops[k].wrote # << >> })

\* books.insert({title, author, description, donorid: user.id,
\* status: 'available'}); is_free_to_read takes the column default.
books_row(id, donorid) ==
    [id |-> id, donorid |-> donorid, status |-> "available",
     is_free_to_read |-> FALSE]

\* The insert of handleSubmit; an error is thrown to the catch block.  Base
\* revision: then the "Book Added" toast and fetchMyBooks(), not awaited.
DonateBooks_handleSubmit_insert(i) ==
    /\ i \in 1..Len(ops)
    /\ ops[i].kind = "DonateBooks_handleSubmit" /\ ops[i].pc = "insert"
    /\ \E ok \in Results :
          /\ env' = AfterCall(ok)
          /\ LET o == ops[i]
                 id == NewBookIds[Donated + 1]
                 written == Wrote(o, "books", id)
             IN  IF ok
                 THEN /\ books' = books \cup {books_row(id, user[o.s])}
                      /\ ops' = [ops EXCEPT ![i] =
                            IF variant = "base" THEN Returned(written, "Book Added")
                            ELSE [written EXCEPT !.pc = "notify"]]
                      /\ fetches' = IF variant = "base"
                                    THEN StartFetchMyBooks(o.s, o.live)
                                    ELSE fetches
                 ELSE /\ books' = books
                      /\ ops' = [ops EXCEPT ![i] = Returned(Failed(o, "insert"), "Error")]
                      /\ fetches' = fetches
    /\ UNCHANGED <<variant, user, book_requests, contact_exchanges, notifications, view>>

\* Extended revision: createNotification(user.id, 'book_added', ...) swallows
\* a failure; then the "Book Added" toast and fetchMyBooks(), not awaited.
DonateBooks_handleSubmit_notify(i) ==
    /\ i \in 1..Len(ops)
    /\ ops[i].kind = "DonateBooks_handleSubmit" /\ ops[i].pc = "notify"
    /\ \E ok \in Results :
          /\ env' = AfterCall(ok)
          /\ LET o == ops[i]
                 row == create_book_notification(user[o.s], "book_added",
                                                 "Book Added Successfully",
                                                 o.wrote[1][2])
             IN  /\ notifications' = IF ok THEN Append(notifications, row)
                                           ELSE notifications
                 /\ ops' = [ops EXCEPT ![i] =
                       Returned(IF ok THEN Wrote(o, "notifications", Len(notifications) + 1)
                                      ELSE Failed(o, "notify"),
                                "Book Added")]
                 /\ fetches' = StartFetchMyBooks(o.s, o.live)
    /\ UNCHANGED <<variant, user, books, book_requests, contact_exchanges, view>>

\* The delete button of a listed book: handleDeleteBook(book.id, book.title)
\* up to its await.  The handler does not look at the user.
handleDeleteBook(s, book) ==
    /\ view[s].currentView = "donate"
    /\ book \in view[s].books
    /\ CanStart(s)
    /\ ops' = Append(ops, Invocation("handleDeleteBook", s, "delete", book))
    /\ UNCHANGED <<variant, user, store, view, fetches, env>>

\* books.delete().eq('id', bookId): the row of the book is removed; the
\* handler writes no other table.
books_delete(bookId) ==
    { b \in books : b.id # bookId }

\* The delete of handleDeleteBook; an error is thrown to the catch block.
\* Base revision, and the extended one when no user is signed in: then the
\* "Book Removed" toast and fetchMyBooks(), not awaited.
handleDeleteBook_delete(i) ==
    /\ i \in 1..Len(ops)
    /\ ops[i].kind = "handleDeleteBook" /\ ops[i].pc = "delete"
    /\ \E ok \in Results :
          /\ env' = AfterCall(ok)
          /\ LET o == ops[i]
                 written == Wrote(o, "books", o.arg.id)
                 last == variant = "base" \/ user[o.s] = NoUser
             IN  IF ok
                 THEN /\ books' = books_delete(o.arg.id)
                      /\ ops' = [ops EXCEPT ![i] =
                            IF last THEN Returned(written, "Book Removed")
                            ELSE [written EXCEPT !.pc = "notify"]]
                      /\ fetches' = IF last THEN StartFetchMyBooks(o.s, o.live)
                                    ELSE fetches
                 ELSE /\ books' = books
                      /\ ops' = [ops EXCEPT ![i] = Returned(Failed(o, "delete"), "Error")]
                      /\ fetches' = fetches
    /\ UNCHANGED <<variant, user, book_requests, contact_exchanges, notifications, view>>

\* Extended revision: if (user) createNotification(user.id, 'book_removed',
\* ...) swallows a failure; then the "Book Removed" toast and fetchMyBooks().
handleDeleteBook_notify(i) ==
    /\ i \in 1..Len(ops)
    /\ ops[i].kind = "handleDeleteBook" /\ ops[i].pc = "notify"
    /\ \E ok \in Results :
          /\ env' = AfterCall(ok)
          /\ LET o == ops[i]
                 row == create_book_notification(user[o.s], "book_removed",
                                                 "Book Removed", o.arg.id)
             IN  /\ notifications' = IF ok THEN Append(notifications, row)
                                           ELSE notifications
                 /\ ops' = [ops EXCEPT ![i] =
                       Returned(IF ok THEN Wrote(o, "notifications", Len(notifications) + 1)
                                      ELSE Failed(o, "notify"),
                                "Book Removed")]
                 /\ fetches' = StartFetchMyBooks(o.s, o.live)
    /\ UNCHANGED <<variant, user, books, book_requests, contact_exchanges, view>>

----------------------------------------------------------------------------
(* Dashboard *)

Tabs == {"books", "requests", "donate", "notifications"}

\* The fetch a view starts when it is mounted (useEffect).
MountFetch(s, tab) ==
    IF tab = "books" THEN <<Fetch("fetchBooks", s, "select")>>
    ELSE IF tab = "requests" /\ user[s] # NoUser
    THEN <<Fetch("fetchRequests", s, "sent")>>
    ELSE IF tab = "notifications" /\ user[s] # NoUser
    THEN <<Fetch("fetchNotifications", s, "select")>>
    ELSE IF tab = "donate" /\ user[s] # NoUser
    THEN <<Fetch("fetchMyBooks", s, "select")>>
    ELSE << >>

\* setCurrentView(tab) / setActiveTab(tab): renderView unmounts the view shown
\* and mounts the one of the tab, with fresh state.  The invocations of the
\* old view go on; its fetches only read, and are dropped.
setCurrentView(s, tab) ==
    /\ tab # view[s].currentView
    /\ env.switches > 0
    /\ env' = [env EXCEPT !.switches = @ - 1]
    /\ view' = [view EXCEPT ![s] = MountedView(tab)]
    /\ ops' = [ k \in 1..Len(ops) |->
                 IF ops[k].s = s THEN [ops[k] EXCEPT !.live = FALSE] ELSE ops[k] ]
    /\ fetches' = SelectSeq(fetches, LAMBDA f : f.s # s) \o MountFetch(s, tab)
    /\ UNCHANGED <<variant, user, store>>


\* handleSignOut: signOut() leaves the session without a user.  The views'
\* effects on [user] call their fetch, which returns at once; the lists they
\* hold stay.  The user signs out when nothing of the session is in flight.
handleSignOut(s) ==
    /\ user[s] # NoUser
    /\ Idle(s)
    /\ \A i \in 1..Len(fetches) : fetches[i].s # s
    /\ user' = [user EXCEPT ![s] = NoUser]
    /\ UNCHANGED <<variant, store, view, ops, fetches, env>>

----------------------------------------------------------------------------
(* Specifications *)

\* Who is signed in where: A in both sessions (two tabs or devices), or A in
\* one and B in the other.
SignIns == { [s \in Sessions |-> "A"],
             [s \in Sessions |-> IF s = "s1" THEN "A" ELSE "B"] }

\* Every session has just rendered the Dashboard: currentView is 'books',
\* BooksList is mounted and its fetchBooks is in flight.
Init ==
    /\ variant \in Variants
    /\ user \in SignIns
    /\ books = Catalog
    /\ book_requests = << >>
    /\ contact_exchanges = << >>
    /\ notifications = << >>
    /\ view = [s \in Sessions |-> MountedView("books")]
    /\ ops = << >>
    /\ fetches = <<Fetch("fetchBooks", "s1", "select"),
                   Fetch("fetchBooks", "s2", "select")>>
    /\ env = [faults |-> MaxFailures, switches |-> 0]

\* BooksList: browsing and requesting.
Next ==
    \/ \E i \in 1..Len(fetches) : fetchBooks(i)
    \/ \E s \in Sessions : \E book \in view[s].books : handleRequestBook(s, book)
    \/ \E i \in 1..Len(ops) : handleRequestBook_check(i)
    \/ \E i \in 1..Len(ops) : handleRequestBook_insert(i)
    \/ \E i \in 1..Len(ops) : handleRequestBook_notify_donor(i)
    \/ \E i \in 1..Len(ops) : handleRequestBook_notify_requester(i)

Spec == Init /\ [][Next]_vars


\* The ledger the respond behaviours start from: each user has requested the
\* other's book (two runs of handleRequestBook).
Requested ==
    << book_requests_row([book_id |-> "b2", requester_id |-> "A", donor_id |-> "B"]) >>

\* Every session has opened My Requests: MyRequests is mounted and its
\* fetchRequests is in flight.
InitRespond ==
    /\ variant \in Variants
    /\ user = [s \in Sessions |-> IF s = "s1" THEN "A" ELSE "B"]
    /\ books = Catalog
    /\ book_requests = Requested
    /\ contact_exchanges = << >>
    /\ notifications = << >>
    /\ view = [s \in Sessions |-> MountedView("requests")]
    /\ ops = << >>
    /\ fetches = <<Fetch("fetchRequests", "s1", "sent"),
                   Fetch("fetchRequests", "s2", "sent")>>
    /\ env = [faults |-> 0, switches |-> MaxSwitches]

\* MyRequests: responding, and the tabs.
NextRespond ==
    \/ \E i \in 1..Len(fetches) : fetchRequests_sent(i)
    \/ \E i \in 1..Len(fetches) : fetchRequests_received(i)
    \/ \E i \in 1..Len(fetches) : fetchRequests_exchanges(i)
    \/ \E s \in Sessions : \E request \in view[s].receivedRequests :
          \E status \in Decisions : handleRequestResponse(s, request, status)
    \/ \E i \in 1..Len(ops) : handleRequestResponse_update(i)
    \/ \E i \in 1..Len(ops) : handleRequestResponse_notify_requester(i)
    \/ \E i \in 1..Len(ops) : handleRequestResponse_notify_donor(i)
    \/ \E s \in Sessions : \E tab \in {"donate", "requests"} : setCurrentView(s, tab)
    \/ \E i \in 1..Len(fetches) : fetchMyBooks(i)

SpecRespond == InitRespond /\ [][NextRespond]_vars

\* As InitRespond, with no tab changes to come.
InitContact ==
    /\ variant \in Variants
    /\ user = [s \in Sessions |-> IF s = "s1" THEN "A" ELSE "B"]
    /\ books = Catalog
    /\ book_requests = Requested
    /\ contact_exchanges = << >>
    /\ notifications = << >>
    /\ view = [s \in Sessions |-> MountedView("requests")]
    /\ ops = << >>
    /\ fetches = <<Fetch("fetchRequests", "s1", "sent"),
                   Fetch("fetchRequests", "s2", "sent")>>
    /\ env = [faults |-> 0, switches |-> 0]

\* MyRequests: responding and sharing contact.
NextContact ==
    \/ \E i \in 1..Len(fetches) : fetchRequests_sent(i)
    \/ \E i \in 1..Len(fetches) : fetchRequests_received(i)
    \/ \E i \in 1..Len(fetches) : fetchRequests_exchanges(i)
    \/ \E s \in Sessions : \E request \in view[s].receivedRequests :
          \E status \in Decisions : handleRequestResponse(s, request, status)
    \/ \E i \in 1..Len(ops) : handleRequestResponse_update(i)
    \/ \E i \in 1..Len(ops) : handleRequestResponse_notify_requester(i)
    \/ \E i \in 1..Len(ops) : handleRequestResponse_notify_donor(i)
    \/ \E s \in Sessions : \E isDonor \in BOOLEAN :
          \E request \in view[s].sentRequests \cup view[s].receivedRequests :
             \E phone \in Phones, address \in Addresses :
                ContactExchange_handleSubmit(s, request, isDonor, phone, address)
    \/ \E i \in 1..Len(ops) : ContactExchange_handleSubmit_write(i)

SpecContact == InitContact /\ [][NextContact]_vars


\* The ledger and the notifications the notification behaviours start from:
\* each user has requested the other's book (two runs of handleRequestBook).
RequestedBoth ==
    << book_requests_row([book_id |-> "b2", requester_id |-> "A", donor_id |-> "B"]),
       book_requests_row([book_id |-> "b1", requester_id |-> "B", donor_id |-> "A"]) >>

Delivered ==
    IF variant = "extended"
    THEN << create_book_notification("B", "book_request", "New Book Request", "b2"),
            create_book_notification("A", "request_sent", "Request Sent", "b2"),
            create_book_notification("A", "book_request", "New Book Request", "b1"),
            create_book_notification("B", "request_sent", "Request Sent", "b1") >>
    ELSE << notifications_row([userid |-> "B", type |-> "book_request",
                               title |-> "New Book Request", about |-> "b2"]),
            notifications_row([userid |-> "A", type |-> "book_request",
                               title |-> "New Book Request", about |-> "b1"]) >>

\* A has opened Notifications; B has opened Notifications or My Requests.
InitNotifications ==
    /\ variant \in Variants
    /\ user = [s \in Sessions |-> IF s = "s1" THEN "A" ELSE "B"]
    /\ books = Catalog
    /\ book_requests = RequestedBoth
    /\ contact_exchanges = << >>
    /\ notifications = Delivered
    /\ \E tab \in {"notifications", "requests"} :
          /\ view = [s \in Sessions |->
                        MountedView(IF s = "s1" THEN "notifications" ELSE tab)]
          /\ fetches = MountFetch("s1", "notifications") \o MountFetch("s2", tab)
    /\ ops = << >>
    /\ env = [faults |-> 0, switches |-> 0]

\* Notifications: reading and marking, while requests are responded to.
NextNotifications ==
    \/ \E i \in 1..Len(fetches) : fetchNotifications(i)
    \/ \E s \in Sessions : \E notification \in view[s].notifications :
          markAsRead(s, notification)
    \/ \E i \in 1..Len(ops) : markAsRead_update(i)
    \/ \E s \in Sessions : markAllAsRead(s)
    \/ \E i \in 1..Len(ops) : markAllAsRead_update(i)
    \/ \E i \in 1..Len(fetches) : fetchRequests_sent(i)
    \/ \E i \in 1..Len(fetches) : fetchRequests_received(i)
    \/ \E i \in 1..Len(fetches) : fetchRequests_exchanges(i)
    \/ \E s \in Sessions : \E request \in view[s].receivedRequests :
          \E status \in Decisions : handleRequestResponse(s, request, status)
    \/ \E i \in 1..Len(ops) : handleRequestResponse_update(i)
    \/ \E i \in 1..Len(ops) : handleRequestResponse_notify_requester(i)
    \/ \E i \in 1..Len(ops) : handleRequestResponse_notify_donor(i)

SpecNotifications == InitNotifications /\ [][NextNotifications]_vars


\* The ledger and the notifications after the request of A for b2 was
\* approved by B (handleRequestBook, then handleRequestResponse).
Approved ==
    << RespondUpdate(Requested[1], "approved") >>

DeliveredApproved ==
    IF variant = "extended"
    THEN << create_book_notification("B", "book_request", "New Book Request", "b2"),
            create_book_notification("A", "request_sent", "Request Sent", "b2"),
            create_book_notification("A", "request_response", "Book Request Approved", "b2"),
            create_book_notification("B", "request_action", "Request Updated", "b2") >>
    ELSE << notifications_row([userid |-> "B", type |-> "book_request",
                               title |-> "New Book Request", about |-> "b2"]),
            notifications_row([userid |-> "A", type |-> "request_response",
                               title |-> "Book Request Approved", about |-> "b2"]) >>

\* Both parties of the approved request have opened My Requests.
InitForm ==
    /\ variant \in Variants
    /\ user = [s \in Sessions |-> IF s = "s1" THEN "A" ELSE "B"]
    /\ books = Catalog
    /\ book_requests = Approved
    /\ contact_exchanges = << >>
    /\ notifications = DeliveredApproved
    /\ view = [s \in Sessions |-> MountedView("requests")]
    /\ ops = << >>
    /\ fetches = <<Fetch("fetchRequests", "s1", "sent"),
                   Fetch("fetchRequests", "s2", "sent")>>
    /\ env = [faults |-> 0, switches |-> 0]

\* The contact form: what is typed into it may be blank.
NextForm ==
    \/ \E i \in 1..Len(fetches) : fetchRequests_sent(i)
    \/ \E i \in 1..Len(fetches) : fetchRequests_received(i)
    \/ \E i \in 1..Len(fetches) : fetchRequests_exchanges(i)
    \/ \E s \in Sessions : \E isDonor \in BOOLEAN :
          \E request \in view[s].sentRequests \cup view[s].receivedRequests :
             \E phone \in {"555-0100", "  "}, address \in Addresses \cup {""} :
                ContactExchange_handleSubmit(s, request, isDonor, phone, address)
    \/ \E i \in 1..Len(ops) : ContactExchange_handleSubmit_write(i)

SpecForm == InitForm /\ [][NextForm]_vars

\* The notifications of the request of A for b2.
DeliveredRequested ==
    IF variant = "extended"
    THEN << create_book_notification("B", "book_request", "New Book Request", "b2"),
            create_book_notification("A", "request_sent", "Request Sent", "b2") >>
    ELSE << notifications_row([userid |-> "B", type |-> "book_request",
                               title |-> "New Book Request", about |-> "b2"]) >>

\* After A has requested b2: A is on the books view again (a fresh
\* Dashboard), B has opened My Requests; store calls may fail.
InitMarkers ==
    /\ variant \in Variants
    /\ user = [s \in Sessions |-> IF s = "s1" THEN "A" ELSE "B"]
    /\ books = Catalog
    /\ book_requests = Requested
    /\ contact_exchanges = << >>
    /\ notifications = DeliveredRequested
    /\ view = [s \in Sessions |-> MountedView(IF s = "s1" THEN "books" ELSE "requests")]
    /\ ops = << >>
    /\ fetches = MountFetch("s1", "books") \o MountFetch("s2", "requests")
    /\ env = [faults |-> MaxFailures, switches |-> 0]

\* The number of button clicks followed in SpecMarkers.
MaxClicks == 2

\* Requesting and responding, with the in-flight markers.
NextMarkers ==
    \/ \E i \in 1..Len(fetches) : fetchBooks(i)
    \/ \E s \in Sessions : \E book \in view[s].books :
          Len(ops) < MaxClicks /\ handleRequestBook(s, book)
    \/ \E i \in 1..Len(ops) : handleRequestBook_check(i)
    \/ \E i \in 1..Len(ops) : handleRequestBook_insert(i)
    \/ \E i \in 1..Len(ops) : handleRequestBook_notify_donor(i)
    \/ \E i \in 1..Len(ops) : handleRequestBook_notify_requester(i)
    \/ \E i \in 1..Len(fetches) : fetchRequests_sent(i)
    \/ \E i \in 1..Len(fetches) : fetchRequests_received(i)
    \/ \E i \in 1..Len(fetches) : fetchRequests_exchanges(i)
    \/ \E s \in Sessions : \E request \in view[s].receivedRequests :
          \E status \in Decisions :
             Len(ops) < MaxClicks /\ handleRequestResponse(s, request, status)
    \/ \E i \in 1..Len(ops) : handleRequestResponse_update(i)
    \/ \E i \in 1..Len(ops) : handleRequestResponse_notify_requester(i)
    \/ \E i \in 1..Len(ops) : handleRequestResponse_notify_donor(i)

SpecMarkers == InitMarkers /\ [][NextMarkers]_vars

\* A has opened Donate Books; the other session (A again, or B) is on the
\* books view.  No store call fails.
InitDonate ==
    /\ variant \in Variants
    /\ user \in SignIns
    /\ books = Catalog
    /\ book_requests = << >>
    /\ contact_exchanges = << >>
    /\ notifications = << >>
    /\ view = [s \in Sessions |-> MountedView(IF s = "s1" THEN "donate" ELSE "books")]
    /\ ops = << >>
    /\ fetches = MountFetch("s1", "donate") \o MountFetch("s2", "books")
    /\ env = [faults |-> 0, switches |-> 0]

\* Donating, deleting, browsing and requesting.
NextDonate ==
    \/ \E i \in 1..Len(fetches) : fetchMyBooks(i)
    \/ \E s \in Sessions : \E formData \in FormData :
          Len(ops) < MaxClicks /\ DonateBooks_handleSubmit(s, formData)
    \/ \E i \in 1..Len(ops) : DonateBooks_handleSubmit_insert(i)
    \/ \E i \in 1..Len(ops) : DonateBooks_handleSubmit_notify(i)
    \/ \E s \in Sessions : \E book \in view[s].books :
          Len(ops) < MaxClicks /\ handleDeleteBook(s, book)
    \/ \E i \in 1..Len(ops) : handleDeleteBook_delete(i)
    \/ \E i \in 1..Len(ops) : handleDeleteBook_notify(i)
    \/ \E i \in 1..Len(fetches) : fetchBooks(i)
    \/ \E s \in Sessions : \E book \in view[s].books :
          Len(ops) < MaxClicks /\ handleRequestBook(s, book)
    \/ \E i \in 1..Len(ops) : handleRequestBook_check(i)
    \/ \E i \in 1..Len(ops) : handleRequestBook_insert(i)
    \/ \E i \in 1..Len(ops) : handleRequestBook_notify_donor(i)
    \/ \E i \in 1..Len(ops) : handleRequestBook_notify_requester(i)

SpecDonate == InitDonate /\ [][NextDonate]_vars

\* Each user has requested the other's book, and B has approved A's request.
RequestedAndApproved ==
    << RespondUpdate(RequestedBoth[1], "approved"), RequestedBoth[2] >>

\* A has opened My Requests or Donate Books, B has opened Notifications or
\* the books view; either may sign out.  No store call fails.
InitSignOut ==
    /\ variant \in Variants
    /\ user = [s \in Sessions |-> IF s = "s1" THEN "A" ELSE "B"]
    /\ books = Catalog
    /\ book_requests = RequestedAndApproved
    /\ contact_exchanges = << >>
    /\ notifications = Delivered
    /\ \E t1 \in {"requests", "donate"} : \E t2 \in {"notifications", "books"} :
          /\ view = [s \in Sessions |-> MountedView(IF s = "s1" THEN t1 ELSE t2)]
          /\ fetches = MountFetch("s1", t1) \o MountFetch("s2", t2)
    /\ ops = << >>
    /\ env = [faults |-> 0, switches |-> 0]

\* Every action of the views, before and after a sign-out.
NextSignOut ==
    \/ \E s \in Sessions : handleSignOut(s)
    \/ \E i \in 1..Len(fetches) : fetchBooks(i)
    \/ \E i \in 1..Len(fetches) : fetchMyBooks(i)
    \/ \E i \in 1..Len(fetches) : fetchNotifications(i)
    \/ \E i \in 1..Len(fetches) : fetchRequests_sent(i)
    \/ \E i \in 1..Len(fetches) : fetchRequests_received(i)
    \/ \E i \in 1..Len(fetches) : fetchRequests_exchanges(i)
    \/ \E s \in Sessions : \E book \in view[s].books :
          Len(ops) < MaxClicks /\ handleRequestBook(s, book)
    \/ \E i \in 1..Len(ops) : handleRequestBook_check(i)
    \/ \E i \in 1..Len(ops) : handleRequestBook_insert(i)
    \/ \E i \in 1..Len(ops) : handleRequestBook_notify_donor(i)
    \/ \E i \in 1..Len(ops) : handleRequestBook_notify_requester(i)
    \/ \E s \in Sessions : \E request \in view[s].receivedRequests :
          \E status \in Decisions :
             Len(ops) < MaxClicks /\ handleRequestResponse(s, request, status)
    \/ \E i \in 1..Len(ops) : handleRequestResponse_update(i)
    \/ \E i \in 1..Len(ops) : handleRequestResponse_notify_requester(i)
    \/ \E i \in 1..Len(ops) : handleRequestResponse_notify_donor(i)
    \/ \E s \in Sessions : \E child \in ContactExchangeChildren(s) :
          /\ Len(ops) < MaxClicks
          /\ ContactExchange_handleSubmit(s, child.request, child.isDonor,
                                          "555-0100", "12 Oak St")
    \/ \E i \in 1..Len(ops) : ContactExchange_handleSubmit_write(i)
    \/ \E s \in Sessions : \E formData \in FormData :
          Len(ops) < MaxClicks /\ DonateBooks_handleSubmit(s, formData)
    \/ \E i \in 1..Len(ops) : DonateBooks_handleSubmit_insert(i)
    \/ \E i \in 1..Len(ops) : DonateBooks_handleSubmit_notify(i)
    \/ \E s \in Sessions : \E book \in view[s].books :
          Len(ops) < MaxClicks /\ handleDeleteBook(s, book)
    \/ \E i \in 1..Len(ops) : handleDeleteBook_delete(i)
    \/ \E i \in 1..Len(ops) : handleDeleteBook_notify(i)
    \/ \E s \in Sessions : \E notification \in view[s].notifications :
          Len(ops) < MaxClicks /\ markAsRead(s, notification)
    \/ \E i \in 1..Len(ops) : markAsRead_update(i)
    \/ \E s \in Sessions : Len(ops) < MaxClicks /\ markAllAsRead(s)
    \/ \E i \in 1..Len(ops) : markAllAsRead_update(i)

SpecSignOut == InitSignOut /\ [][NextSignOut]_vars

----------------------------------------------------------------------------
(* The claims *)

Invocations(kind) == { k \in 1..Len(ops) : ops[k].kind = kind }

\* The rows of a table an invocation wrote.
WrittenRows(o, table) ==
    { o.wrote[n][2] : n \in { m \in 1..Len(o.wrote) : o.wrote[m][1] = table } }

\* The notifications of a type an invocation wrote.
WrittenNotifications(o, type) ==
    { n \in WrittenRows(o, "notifications") : notifications[n].type = type }

\* An invocation none of whose store calls failed.
FaultFree(o) == o.failed = {}

\* C1: a handleRequestBook(B) by U, U not B's donor, whose existence check
\* found no pending request of U for B and whose store calls all succeeded,
\* has, once returned, inserted exactly one request (book B, requester U,
\* donor B.donorid, pending) and exactly one 'book_request' notification for
\* B's donor, and shown "Request Sent".
C1_CreateAddsOneRequest ==
    \A k \in Invocations("handleRequestBook") :
        LET o == ops[k] IN
        (o.pc = "done" /\ o.matched = 0 /\ FaultFree(o)) =>
            /\ user[o.s] # o.arg.donorid
            /\ o.outcome = "Request Sent"
            /\ Cardinality(WrittenRows(o, "book_requests")) = 1
            /\ \A r \in WrittenRows(o, "book_requests") :
                  /\ r \in RequestIds
                  /\ book_requests[r].book_id = o.arg.id
                  /\ book_requests[r].requester_id = user[o.s]
                  /\ book_requests[r].donor_id = o.arg.donorid
                  /\ book_requests[r].status = "pending"
                  /\ \A j \in Invocations("handleRequestBook") :
                        r \in WrittenRows(ops[j], "book_requests") => j = k
            /\ Cardinality(WrittenNotifications(o, "book_request")) = 1
            /\ \A n \in WrittenNotifications(o, "book_request") :
                  /\ notifications[n].userid = o.arg.donorid
                  /\ notifications[n].title = "New Book Request"

C1_Witness ==
    \E k \in Invocations("handleRequestBook") :
        /\ ops[k].pc = "done" /\ ops[k].matched = 0 /\ FaultFree(ops[k])
        /\ ops[k].outcome = "Request Sent"
        /\ Len(book_requests) >= 1

\* C2: a handleRequestBook(B) by U whose existence check ran while the ledger
\* held a pending request of U for B ends with "Already Requested" and writes
\* nothing (here for the invocations none of whose store calls failed).
C2_DuplicateRefused ==
    \A k \in Invocations("handleRequestBook") :
        LET o == ops[k] IN
        (o.matched >= 1 /\ FaultFree(o)) =>
            /\ o.pc = "done"
            /\ o.outcome = "Already Requested"
            /\ o.wrote = << >>

\* C3: the ledger holds at most one pending request for each (book,
\* requester) pair.
C3_OnePendingPerPair ==
    \A b \in Catalog : \A u \in Users :
        Cardinality(PendingRequests(b.id, u)) <= 1

\* C8: when the primary write of a handler succeeded and a notification
\* write after it failed, the handler still reports success.
C8_NotificationFailureSwallowed ==
    \A k \in 1..Len(ops) :
        LET o == ops[k] IN
        (/\ o.kind \in {"handleRequestBook", "handleRequestResponse"}
         /\ WrittenRows(o, "book_requests") # {}
         /\ o.failed \cap {"notify_donor", "notify_requester"} # {}
         /\ o.pc = "done")
            => o.outcome \in {"Request Sent", "Request Updated"}

\* C9: a handler one of whose store calls (existence check, request insert,
\* status update) failed ends with the generic failure message and makes no
\* further store call.
C9_StoreFailureEndsHandler ==
    \A k \in 1..Len(ops) :
        LET o == ops[k] IN
        (o.failed \cap {"check", "insert", "update"} # {}) =>
            /\ o.pc = "done"
            /\ o.outcome = "Error"


\* C4: once the status of a request is approved or rejected, no step changes
\* it again.
C4_StatusChangesOnce ==
    [][\A r \in RequestIds :
          book_requests[r].status # "pending" =>
              book_requests'[r].status = book_requests[r].status]_vars

\* C5: in the extended variant a session has at most one handleRequestResponse
\* for a request in flight, also when the requests view was left and entered
\* again in between.
C5_OneResponseInFlight ==
    variant = "extended" =>
        \A s \in Sessions : \A r \in RequestIds :
            Cardinality({ k \in Invocations("handleRequestResponse") :
                            /\ ops[k].s = s
                            /\ ops[k].arg.requestId = r
                            /\ ops[k].pc # "done" }) <= 1

C7_RespondWrites ==
    \A k \in Invocations("handleRequestResponse") :
        LET o == ops[k]
            r == o.arg.requestId
        IN
        (o.pc = "done" /\ o.outcome = "Request Updated") =>
            /\ r \in WrittenRows(o, "book_requests")
            /\ book_requests[r].updated_at = "responded"
            /\ Cardinality(WrittenNotifications(o, "request_response")) = 1
            /\ \A n \in WrittenNotifications(o, "request_response") :
                  /\ notifications[n].userid = book_requests[r].requester_id
                  /\ notifications[n].title =
                        IF o.arg.status = "approved"
                        THEN "Book Request Approved"
                        ELSE "Book Request Rejected"
            /\ variant = "extended" =>
                  /\ Cardinality(WrittenNotifications(o, "request_action")) = 1
                  /\ \A n \in WrittenNotifications(o, "request_action") :
                        notifications[n].userid = user[o.s]

\* C10: every step of ContactExchange.handleSubmit that changes
\* contact_exchanges writes for a request whose stored status is approved at
\* that moment.
C10_ContactOnlyWhenApproved ==
    [][\A k \in 1..Len(ops) :
          (/\ ops[k].kind = "handleSubmit"
           /\ ops[k].pc = "write"
           /\ ops'[k].pc = "done"
           /\ contact_exchanges' # contact_exchanges)
              => book_requests[ops[k].arg.requestId].status = "approved"]_vars


\* The handleSubmit invocations of a role for a request that reached the
\* store call (the ones the validation let through).
Shares(r, isDonor) ==
    { k \in Invocations("handleSubmit") :
        /\ ops[k].arg.requestId = r
        /\ ops[k].arg.isDonor = isDonor
        /\ (ops[k].pc = "write" \/ ops[k].outcome # "none") }

\* C11: contact_exchanges holds at most one row per request id, whatever the
\* interleaving of one share of the donor and one share of the requester of
\* the request.
C11_OneExchangePerRequest ==
    \A r \in RequestIds :
        (Cardinality(Shares(r, TRUE)) <= 1 /\ Cardinality(Shares(r, FALSE)) <= 1)
            => Cardinality(ExchangesOf(r)) <= 1

\* C12: when a party has shared the same phone and address twice for a
\* request and both invocations returned with "Contact Shared",
\* contact_exchanges holds exactly one row of the request, and it has these
\* values in the party's columns.
C12_ShareIdempotent ==
    \A j, k \in Invocations("handleSubmit") :
        LET o == ops[k] IN
        (/\ j < k
         /\ ops[j].s = o.s
         /\ ops[j].arg.requestId = o.arg.requestId
         /\ ops[j].arg.isDonor = o.arg.isDonor
         /\ ops[j].arg.phone = o.arg.phone
         /\ ops[j].arg.address = o.arg.address
         /\ ops[j].outcome = "Contact Shared"
         /\ o.outcome = "Contact Shared")
            => /\ Cardinality(ExchangesOf(o.arg.requestId)) = 1
               /\ \A x \in ExchangesOf(o.arg.requestId) :
                     contact_exchanges[x] = updateData(contact_exchanges[x], o)


\* The columns of an exchange row by the party they belong to: the donor_*
\* columns are the donor's, the requester_* columns the requester's.
PartyPhone(e, u, request) ==
    IF u = request.donor_id THEN e.donor_phone ELSE e.requester_phone

PartyAddress(e, u, request) ==
    IF u = request.donor_id THEN e.donor_address ELSE e.requester_address

Counterpart(u, request) ==
    IF u = request.donor_id THEN request.requester_id ELSE request.donor_id

IsSet(value) == value \notin {NoValue, ""}

\* C13 (as stated): under a listed approved request a party is shown the
\* counterpart's phone and address whenever the fetched exchange has the
\* counterpart's phone, whether or not the party has shared its own.
C13_RevealWhenCounterpartShared ==
    \A s \in Sessions : \A child \in ContactExchangeChildren(s) :
        \A e \in existingExchange(s, child.request.id) :
            LET other == Counterpart(user[s], child.request) IN
            IsSet(PartyPhone(e, other, child.request)) =>
                ContactInformation(s, child) =
                    { [phone |-> PartyPhone(e, other, child.request),
                       address |-> PartyAddress(e, other, child.request)] }

\* C13 (amended): under a listed approved request a party is shown the
\* counterpart's phone and address whenever the fetched exchange has the
\* counterpart's phone and the party's own phone.
C13_RevealWhenBothShared ==
    \A s \in Sessions : \A child \in ContactExchangeChildren(s) :
        \A e \in existingExchange(s, child.request.id) :
            LET other == Counterpart(user[s], child.request) IN
            (/\ IsSet(PartyPhone(e, other, child.request))
             /\ IsSet(PartyPhone(e, user[s], child.request))) =>
                ContactInformation(s, child) =
                    { [phone |-> PartyPhone(e, other, child.request),
                       address |-> PartyAddress(e, other, child.request)] }

C13_Witness ==
    \E s \in Sessions : \E child \in ContactExchangeChildren(s) :
        \E e \in existingExchange(s, child.request.id) :
            /\ IsSet(e.donor_phone) /\ IsSet(e.requester_phone)
            /\ e.donor_phone # e.requester_phone
            /\ ContactInformation(s, child) # {}

\* C14: a party is shown the counterpart's contact only under a request
\* listed as approved and only when the fetched exchange has the party's own
\* phone.
C14_RevealOnlyAfterOwnShare ==
    \A s \in Sessions : \A child \in ContactExchangeChildren(s) :
        ContactInformation(s, child) # {} =>
            /\ child.request \in view[s].sentRequests \cup view[s].receivedRequests
            /\ child.request.status = "approved"
            /\ \E e \in existingExchange(s, child.request.id) :
                  IsSet(PartyPhone(e, user[s], child.request))

C14_Witness ==
    \E s \in Sessions : \E child \in ContactExchangeChildren(s) :
        /\ ContactInformation(s, child) # {}
        /\ \E k \in Invocations("handleSubmit") :
              ops[k].s = s /\ ops[k].outcome = "Contact Shared"

\* C15: what a party is shown as the other person's contact is the content
\* of the counterpart's columns of the fetched exchange, and it was written
\* there by a share of the counterpart, never by one of the party itself.
C15_RevealShowsCounterpart ==
    \A s \in Sessions : \A child \in ContactExchangeChildren(s) :
        \A info \in ContactInformation(s, child) :
            LET other == Counterpart(user[s], child.request) IN
            /\ other # user[s]
            /\ \E e \in existingExchange(s, child.request.id) :
                  /\ info.phone = PartyPhone(e, other, child.request)
                  /\ info.address = PartyAddress(e, other, child.request)
            /\ \E k \in Invocations("handleSubmit") :
                  /\ user[ops[k].s] = other
                  /\ ops[k].arg.requestId = child.request.id
                  /\ ops[k].outcome = "Contact Shared"
                  /\ ops[k].arg.phone = info.phone
                  /\ ops[k].arg.address = info.address

C15_Witness ==
    \E s \in Sessions : \E child \in ContactExchangeChildren(s) :
        \E info \in ContactInformation(s, child) :
            \E k \in Invocations("handleSubmit") :
                /\ ops[k].s = s
                /\ ops[k].outcome = "Contact Shared"
                /\ ops[k].arg.phone # info.phone


\* C16: the store call of a share changes, in the rows of its request, only
\* the two columns of the sharing role, leaves the rows of other requests as
\* they are, removes no row, and adds at most one row, of its request, with
\* the other role's columns empty.
C16_ShareWritesOwnColumns ==
    [][\A k \in 1..Len(ops) :
          (/\ ops[k].kind = "handleSubmit"
           /\ ops[k].pc = "write"
           /\ ops'[k].pc = "done")
          =>
          LET o == ops[k]
              n == Len(contact_exchanges)
          IN  /\ Len(contact_exchanges') \in {n, n + 1}
              /\ \A x \in 1..n :
                    LET old == contact_exchanges[x]
                        new == contact_exchanges'[x]
                    IN  /\ new.request_id = old.request_id
                        /\ old.request_id # o.arg.requestId => new = old
                        /\ o.arg.isDonor =>
                              /\ new.requester_phone = old.requester_phone
                              /\ new.requester_address = old.requester_address
                        /\ ~o.arg.isDonor =>
                              /\ new.donor_phone = old.donor_phone
                              /\ new.donor_address = old.donor_address
              /\ \A x \in (n + 1)..Len(contact_exchanges') :
                    LET new == contact_exchanges'[x] IN
                    /\ new.request_id = o.arg.requestId
                    /\ o.arg.isDonor =>
                          new.requester_phone = NoValue /\ new.requester_address = NoValue
                    /\ ~o.arg.isDonor =>
                          new.donor_phone = NoValue /\ new.donor_address = NoValue
              /\ UNCHANGED <<books, book_requests, notifications>>]_vars

C16_Witness ==
    \E k \in Invocations("handleSubmit") :
        /\ ops[k].arg.existingExchange
        /\ ops[k].outcome = "Contact Shared"
        /\ \E x \in ExchangesOf(ops[k].arg.requestId) :
              /\ <<"contact_exchanges", x>> \in
                    { ops[k].wrote[n] : n \in 1..Len(ops[k].wrote) }
              /\ IsSet(contact_exchanges[x].donor_phone)
              /\ IsSet(contact_exchanges[x].requester_phone)

\* C17: a handleSubmit whose phone or address is empty or white space only
\* returns at once: it makes no store call and starts no fetch, and leaves
\* the tables and the state of the view, the form's loading flag included,
\* as they are.
C17_EmptySubmissionRejected ==
    [][\A k \in 1..Len(ops') :
          (/\ k > Len(ops)
           /\ ops'[k].kind = "handleSubmit"
           /\ (ops'[k].arg.phone \in {"", "  "} \/ ops'[k].arg.address \in {"", "  "}))
          => /\ ops'[k].pc = "done"
             /\ ops'[k].wrote = << >>
             /\ ops'[k].failed = {}
             /\ UNCHANGED <<store, view, fetches, env>>]_vars

C17_Witness ==
    \E k \in Invocations("handleSubmit") :
        /\ ops[k].arg.phone = "  "
        /\ ops[k].arg.address # ""
        /\ ops[k].pc = "done"
        /\ ops[k].outcome = "none"
        /\ contact_exchanges = << >>


\* C18: the store call of a markAllAsRead of user U that succeeds leaves
\* every notification of U read, changes no notification of another user,
\* changes no column but read, and adds or removes no notification.
C18_MarkAllReadsOwn ==
    [][\A k \in 1..Len(ops) :
          (/\ ops[k].kind = "markAllAsRead"
           /\ ops[k].pc = "update"
           /\ ops'[k].outcome = "Success")
          =>
          /\ Len(notifications') = Len(notifications)
          /\ \A n \in 1..Len(notifications) :
                /\ notifications[n].userid = user[ops[k].s] => notifications'[n].read
                /\ notifications[n].userid # user[ops[k].s] =>
                      notifications'[n] = notifications[n]
                /\ notifications'[n] =
                      [notifications[n] EXCEPT !.read = notifications'[n].read]
          /\ UNCHANGED <<books, book_requests, contact_exchanges>>]_vars

C18_Witness ==
    \E k \in Invocations("markAllAsRead") :
        /\ ops[k].outcome = "Success"
        /\ WrittenRows(ops[k], "notifications") # {}
        /\ \A n \in 1..Len(notifications) :
              notifications[n].userid = user[ops[k].s] => notifications[n].read
        /\ \E n \in 1..Len(notifications) :
              notifications[n].userid # user[ops[k].s] /\ ~notifications[n].read


\* C19: when the donor has approved the request, then the requester has
\* shared phone and address, then the donor has shared phone and address
\* (each step started after the one before had returned, each successful),
\* and no list fetch is in flight any more, contact_exchanges holds one row
\* of the request with all four columns set and each of the two is shown
\* the other's phone and address.
C19_ExchangeCompleted ==
    \A a \in Invocations("handleRequestResponse") :
      \A j, k \in Invocations("handleSubmit") :
        LET r == ops[a].arg.requestId IN
        (/\ ops[a].arg.status = "approved"
         /\ ops[a].outcome = "Request Updated"
         /\ ops[j].arg.requestId = r /\ ~ops[j].arg.isDonor
         /\ ops[k].arg.requestId = r /\ ops[k].arg.isDonor
         /\ a \in ops[j].before
         /\ j \in ops[k].before
         /\ ops[j].outcome = "Contact Shared"
         /\ ops[k].outcome = "Contact Shared"
         /\ fetches = << >>)
        =>
        /\ Cardinality(ExchangesOf(r)) = 1
        /\ \A x \in ExchangesOf(r) :
              /\ contact_exchanges[x].requester_phone = ops[j].arg.phone
              /\ contact_exchanges[x].requester_address = ops[j].arg.address
              /\ contact_exchanges[x].donor_phone = ops[k].arg.phone
              /\ contact_exchanges[x].donor_address = ops[k].arg.address
        /\ \E child \in ContactExchangeChildren(ops[j].s) :
              ContactInformation(ops[j].s, child) =
                  { [phone |-> ops[k].arg.phone, address |-> ops[k].arg.address] }
        /\ \E child \in ContactExchangeChildren(ops[k].s) :
              ContactInformation(ops[k].s, child) =
                  { [phone |-> ops[j].arg.phone, address |-> ops[j].arg.address] }


\* The marker an invocation set when it was started (extended revision).
MarkerOf(o) ==
    IF o.kind = "handleRequestResponse" THEN o.arg.requestId ELSE o.arg.id

MarkersOf(s, kind) ==
    IF kind = "handleRequestResponse" THEN view[s].processingRequests
    ELSE view[s].requestingBooks

\* Every marker of a mounted view belongs to an invocation the view started
\* that has not returned yet.
MarkersHeld ==
    \A s \in Sessions : \A kind \in {"handleRequestResponse", "handleRequestBook"} :
        \A m \in MarkersOf(s, kind) :
            \E k \in Invocations(kind) :
                /\ ops[k].s = s /\ ops[k].live
                /\ MarkerOf(ops[k]) = m
                /\ ops[k].pc # "done"

\* C20: when a handleRequestResponse(R), or a handleRequestBook(B) of the
\* extended revision, returns (success, "Already Requested", or a failed
\* store call), R is not in processingRequests, and B not in requestingBooks,
\* of the view that started it; and no marker is set without an invocation
\* of the view still in flight, so none stays set forever.
C20_MarkersReleased ==
    [][/\ \A k \in 1..Len(ops) :
             (/\ ops[k].kind \in {"handleRequestResponse", "handleRequestBook"}
              /\ ops[k].pc # "done"
              /\ ops'[k].pc = "done"
              /\ ops'[k].live)
             => LET s == ops[k].s IN
                IF ops[k].kind = "handleRequestResponse"
                THEN MarkerOf(ops[k]) \notin view'[s].processingRequests
                ELSE MarkerOf(ops[k]) \notin view'[s].requestingBooks
       /\ MarkersHeld']_vars

C20_Witness ==
    /\ variant = "extended"
    /\ \E k \in Invocations("handleRequestResponse") :
          /\ ops[k].outcome = "Error"
          /\ ops[k].live
          /\ MarkerOf(ops[k]) \notin view[ops[k].s].processingRequests
    /\ \E k \in Invocations("handleRequestBook") :
          /\ ops[k].outcome = "Already Requested"
          /\ ops[k].live
          /\ MarkerOf(ops[k]) \notin view[ops[k].s].requestingBooks


\* C24: no step removes a notification or changes its recipient, type, title
\* or message, and no step takes a read flag from true back to false.
C24_NotificationsKept ==
    [][/\ Len(notifications') >= Len(notifications)
       /\ \A n \in 1..Len(notifications) :
             /\ notifications'[n] =
                   [notifications[n] EXCEPT !.read = notifications'[n].read]
             /\ notifications[n].read => notifications'[n].read]_vars

C24_Witness ==
    /\ Len(notifications) > Len(Delivered)
    /\ \E k \in Invocations("markAsRead") :
          /\ ops[k].pc = "done" /\ FaultFree(ops[k])
          /\ notifications[ops[k].arg.notificationId].read
    /\ \E k \in Invocations("markAsRead") : \E j \in Invocations("markAsRead") :
          /\ j # k
          /\ ops[j].arg.notificationId = ops[k].arg.notificationId
          /\ ops[j].pc = "done" /\ ops[k].pc = "done"

\* C27: when the markAsRead invocations a mounted Notifications view started
\* have all returned without a failed store call, every notification one of
\* them marked read in the store is listed as read in the view.
C27_LocalReadMarksKept ==
    \A s \in Sessions :
        LET mine == { k \in Invocations("markAsRead") : ops[k].s = s /\ ops[k].live }
        IN  (/\ view[s].currentView = "notifications"
             /\ \A k \in mine : ops[k].pc = "done" /\ FaultFree(ops[k]))
            => \A k \in mine : \A n \in NotificationsList(s) :
                  (n.id = ops[k].arg.notificationId
                   /\ notifications[n.id].read) => n.read


\* C26: in the extended revision, a mounted MyRequests view that has started
\* a handleRequestResponse for request R which returned with "Request
\* Updated" and no failed store call starts no further handleRequestResponse
\* for R afterwards.
C26_NoSecondResponse ==
    variant = "extended" =>
        \A k \in Invocations("handleRequestResponse") :
            \A j \in Invocations("handleRequestResponse") :
                (/\ ops[k].s = ops[j].s
                 /\ ops[k].live /\ ops[j].live
                 /\ ops[k].arg.requestId = ops[j].arg.requestId
                 /\ ops[k].pc = "done" /\ FaultFree(ops[k])
                 /\ ops[k].outcome = "Request Updated")
                => k \notin ops[j].before


\* C28: a handleRequestBook(B) by U whose existence check ran, without
\* failing, while the ledger held two or more pending requests of U for B
\* inserts no request.
C28_DuplicateRefusedForManyRows ==
    \A k \in Invocations("handleRequestBook") :
        LET o == ops[k] IN
        (o.matched >= 2 /\ "check" \notin o.failed) =>
            /\ o.pc \in {"check", "done"}
            /\ WrittenRows(o, "book_requests") = {}


\* The requests of a requester for a book, whatever their status.
RequestsOf(book_id, requester_id) ==
    { r \in RequestIds : /\ book_requests[r].book_id = book_id
                         /\ book_requests[r].requester_id = requester_id }

\* C25: when the requests of U for B in the ledger are all approved or
\* rejected (and there is one), the existence check of a handleRequestBook(B)
\* by U that does not fail lets the handler go on to the insert; its insert,
\* when it succeeds, appends one pending request (B, U, B's donor) and leaves
\* every earlier request as it was; and the handler, when none of its store
\* calls failed, ends with "Request Sent".
C25_CreateAfterTerminal ==
    [][\A k \in 1..Len(ops) :
          LET o == ops[k]
              u == user[o.s]
          IN  ops[k].kind = "handleRequestBook" =>
              /\ (/\ o.pc = "check"
                  /\ ops'[k].pc # "check"
                  /\ "check" \notin ops'[k].failed
                  /\ RequestsOf(o.arg.id, u) # {}
                  /\ \A r \in RequestsOf(o.arg.id, u) :
                        book_requests[r].status \in Decisions)
                 => ops'[k].pc = "insert"
              /\ (/\ o.pc = "insert"
                  /\ ops'[k].pc # "insert"
                  /\ "insert" \notin ops'[k].failed
                  /\ o.matched = 0)
                 => book_requests' =
                       Append(book_requests,
                              [book_id |-> o.arg.id, requester_id |-> u,
                               donor_id |-> o.arg.donorid, status |-> "pending",
                               updated_at |-> "created"])
              /\ (/\ o.pc # "done"
                  /\ ops'[k].pc = "done"
                  /\ ops'[k].matched = 0
                  /\ FaultFree(ops'[k]))
                 => ops'[k].outcome = "Request Sent"]_vars

C25_Witness ==
    \E k \in Invocations("handleRequestBook") :
        /\ ops[k].pc = "done" /\ FaultFree(ops[k]) /\ ops[k].matched = 0
        /\ ops[k].outcome = "Request Sent"
        /\ \E r \in RequestsOf(ops[k].arg.id, user[ops[k].s]) :
              /\ book_requests[r].status = "rejected"
              /\ \A w \in WrittenRows(ops[k], "book_requests") :
                    r < w /\ book_requests[w].status = "pending"

\* The primary write of a handler: the request insert of handleRequestBook,
\* the status update of handleRequestResponse.
PrimaryCall(o) ==
    IF o.kind = "handleRequestBook" THEN "insert" ELSE "update"

\* C29: a handleRequestBook or handleRequestResponse that has written a
\* notification has written its request row first; one whose request insert
\* or status update failed has written nothing, has returned, and has shown
\* the failure message, not a success message.
C29_NotificationAfterPrimaryWrite ==
    \A k \in 1..Len(ops) :
        LET o == ops[k] IN
        o.kind \in {"handleRequestBook", "handleRequestResponse"} =>
            /\ WrittenRows(o, "notifications") # {} =>
                  o.wrote[1][1] = "book_requests"
            /\ PrimaryCall(o) \in o.failed =>
                  /\ o.wrote = << >>
                  /\ o.pc = "done"
                  /\ o.outcome = "Error"

C29_Witness ==
    /\ \E k \in Invocations("handleRequestResponse") :
          /\ "update" \in ops[k].failed
          /\ ops[k].outcome = "Error"
    /\ \E k \in Invocations("handleRequestResponse") :
          /\ WrittenRows(ops[k], "notifications") # {}
          /\ ops[k].pc = "done"


\* C23: the book of an approved request is not available: its stored status
\* is not 'available', so the browse query does not return it.
C23_ApprovedBookUnavailable ==
    \A r \in RequestIds :
        book_requests[r].status = "approved" =>
            \A b \in books :
                b.id = book_requests[r].book_id =>
                    /\ b.status # "available"
                    /\ b \notin BooksQuery


\* C22: no request in the ledger has its requester as its donor.
C22_RequesterIsNotDonor ==
    \A r \in RequestIds :
        book_requests[r].requester_id # book_requests[r].donor_id

C22_Witness ==
    /\ \E r \in RequestIds :
          /\ book_requests[r].book_id = NewBookIds[1]
          /\ book_requests[r].donor_id = "A"
          /\ book_requests[r].requester_id = "B"
    /\ \E b \in view["s2"].books : b.id = NewBookIds[1]


\* C30: every request in the ledger is for a book that is in the catalog.
C30_RequestsReferenceBooks ==
    \A r \in RequestIds :
        \E b \in books : b.id = book_requests[r].book_id


\* C21: a step that starts or advances a handler invocation of a session in
\* which no user is signed in writes to no table.
C21_NoWriteWithoutUser ==
    [][\A k \in 1..Len(ops') :
          (/\ user[ops'[k].s] = NoUser
           /\ (k > Len(ops) \/ ops'[k] # ops[k]))
          => UNCHANGED store]_vars

====
